---- MODULE Spec2Model ----
(***************************************************************************)
(* A model of relate.py: the Relation class, a pair of dictionaries        *)
(* (forward, inverse) mapping a key to a set of keys, kept in step under   *)
(* one of four cardinalities.                                              *)
(*                                                                         *)
(* Python objects are modelled with their identity, because the code       *)
(* shares them: __invert__ makes a second Relation that holds the same two *)
(* dictionaries, and copy() makes new dictionaries that hold the same set  *)
(* objects.  The state is therefore a heap:                                *)
(*   rel   : Relation objects by name, each [cls, cardinality, forward,    *)
(*           inverse] with forward and inverse the identities of two       *)
(*           dictionaries;                                                 *)
(*   dicts : dictionary objects by identity, each [ord, order, ref], ref   *)
(*           mapping a key to the identity of a set object;                *)
(*   sets  : set objects by identity, each a set of keys;                  *)
(*   last  : the call that was made last and how it ended.                 *)
(***************************************************************************)
EXTENDS Integers, Sequences, FiniteSets, TLC

VARIABLES rel, dicts, sets, last

vars == <<rel, dicts, sets, last>>

(***************************************************************************)
(* Bounds of the model.                                                    *)
(***************************************************************************)
\* the keys given as domain keys are 1..NumDom, those given as range keys
\* 1..NumRng: a key may occur on both sides
NumDom == 3
NumRng == 2
\* largest set passed as the domain or the target of one insert
MaxArg == 2
\* largest external mapping passed to extend
MaxMap == 2
\* the keys used where two Relation objects are followed together
NumShared == 2
\* calls followed after a copy has been taken
MaxCalls == 3
\* identities available to dictionaries, and generations of one set identity
NumDicts == 6
NumGen == 2

DomKeys == 1 .. NumDom
RngKeys == 1 .. NumRng
Keys == DomKeys \cup RngKeys
SharedKeys == 1 .. NumShared

(***************************************************************************)
(* Class constants.                                                        *)
(***************************************************************************)
CARDINALITIES == {"1:1", "1:M", "M:1", "M:N"}

INVERTED_CARDINALITY ==
    [c \in CARDINALITIES |->
        CASE c = "1:1" -> "1:1"
          [] c = "1:M" -> "M:1"
          [] c = "M:1" -> "1:M"
          [] c = "M:N" -> "M:N"]

(***************************************************************************)
(* Sequences used for iteration orders.                                    *)
(***************************************************************************)
RECURSIVE SortedSeq(_)
SortedSeq(S) ==
    IF S = {} THEN <<>>
    ELSE LET m == CHOOSE x \in S : \A y \in S : x <= y
         IN  <<m>> \o SortedSeq(S \ {m})

\* every order in which the elements of a set may be iterated
Orders(S) ==
    {q \in [1 .. Cardinality(S) -> S] : \A i, j \in DOMAIN q : i # j => q[i] # q[j]}

(***************************************************************************)
(* The heap.  An operation of the program is a function from a machine     *)
(* state st = [rel, dicts, sets, err, evD, evT, swept, kept] to the next   *)
(* one; err is the exception raised ("none" when the call returned).  The  *)
(* last four fields record the branches the call took: evD the range keys  *)
(* that __setitem__ evicted on the domain side (the sets of the domain     *)
(* keys it removed), evT the domain keys it evicted on the range side,     *)
(* swept that _remove deleted a key whose set had become empty, kept that  *)
(* _remove took the reference out of a set that stayed non-empty.          *)
(***************************************************************************)
Machine(r, d, s) ==
    [rel |-> r, dicts |-> d, sets |-> s, err |-> "none",
     evD |-> {}, evT |-> {}, swept |-> FALSE, kept |-> FALSE]

Raise(st, e) == [st EXCEPT !.err = e]

\* the set objects some dictionary refers to
LiveSets(ds) == UNION {{ds[m].ref[k] : k \in DOMAIN ds[m].ref} : m \in DOMAIN ds}

\* the dictionaries some Relation refers to
LiveDicts(r) == UNION {{r[n].forward, r[n].inverse} : n \in DOMAIN r}

\* reference counting: an object nothing refers to is freed
ReleaseSets(st) ==
    [st EXCEPT !.sets = [s \in (DOMAIN st.sets) \cap LiveSets(st.dicts) |-> st.sets[s]]]

Release(st) ==
    ReleaseSets([st EXCEPT !.dicts =
                     [m \in (DOMAIN st.dicts) \cap LiveDicts(st.rel) |-> st.dicts[m]]])

\* {} or OrderedDict()
EmptyDict(ordered) == [ord |-> ordered, order |-> <<>>, ref |-> <<>>]

\* key in mapping
DictHas(st, mapping, key) == key \in DOMAIN st.dicts[mapping].ref

\* mapping[key], the set object's value
DictGet(st, mapping, key) == st.sets[st.dicts[mapping].ref[key]]

\* del mapping[key]
DictDel(st, mapping, key) ==
    LET dct == st.dicts[mapping]
        nd  == [ord   |-> dct.ord,
                order |-> SelectSeq(dct.order, LAMBDA x : x # key),
                ref   |-> [x \in (DOMAIN dct.ref) \ {key} |-> dct.ref[x]]]
        ds  == [st.dicts EXCEPT ![mapping] = nd]
        sid == dct.ref[key]
        \* the set object is freed unless another dictionary still holds it
        held == \E m \in DOMAIN ds : \E k \in DOMAIN ds[m].ref : ds[m].ref[k] = sid
    IN  [st EXCEPT !.dicts = ds,
                   !.sets = IF held THEN @
                            ELSE [s \in (DOMAIN @) \ {sid} |-> @[s]]]

\* the identity of a set object created for mapping[key]: the first unused one
NewSet(st, mapping, key) ==
    LET g == CHOOSE g \in 0 .. NumGen :
                 /\ <<mapping, key, g>> \notin DOMAIN st.sets
                 /\ \A h \in 0 .. g - 1 : <<mapping, key, h>> \in DOMAIN st.sets
    IN  <<mapping, key, g>>

\* a faulty variant: mapping[key] = {value}, the overwrite of a dictionary
SetDefaultAddOverwrite(st, mapping, key, value) ==
    IF DictHas(st, mapping, key)
    THEN [st EXCEPT !.sets[st.dicts[mapping].ref[key]] = {value}]
    ELSE LET id   == NewSet(st, mapping, key)
             dct  == st.dicts[mapping]
             ref2 == (key :> id) @@ dct.ref
             ord2 == IF dct.ord THEN Append(dct.order, key)
                                ELSE SortedSeq(DOMAIN ref2)
         IN  [st EXCEPT !.dicts[mapping] = [ord |-> dct.ord, order |-> ord2, ref |-> ref2],
                        !.sets = (id :> {value}) @@ @]

\* a faulty variant: the key is moved to the end of an ordered mapping on
\* every add
SetDefaultAddMoveToEnd(st, mapping, key, value) ==
    LET dct  == st.dicts[mapping]
        id   == IF DictHas(st, mapping, key) THEN dct.ref[key] ELSE NewSet(st, mapping, key)
        old  == IF DictHas(st, mapping, key) THEN st.sets[id] ELSE {}
        ref2 == (key :> id) @@ dct.ref
        ord2 == IF dct.ord THEN Append(SelectSeq(dct.order, LAMBDA x : x # key), key)
                           ELSE SortedSeq(DOMAIN ref2)
    IN  [st EXCEPT !.dicts[mapping] = [ord |-> dct.ord, order |-> ord2, ref |-> ref2],
                   !.sets = (id :> (old \cup {value})) @@ @]

\* mapping.setdefault(key, set()).add(value)
SetDefaultAdd(st, mapping, key, value) ==
    IF DictHas(st, mapping, key)
    THEN [st EXCEPT !.sets[st.dicts[mapping].ref[key]] = @ \cup {value}]
    ELSE LET id   == NewSet(st, mapping, key)
             dct  == st.dicts[mapping]
             ref2 == (key :> id) @@ dct.ref
             ord2 == IF dct.ord THEN Append(dct.order, key)
                                ELSE SortedSeq(DOMAIN ref2)
         IN  [st EXCEPT !.dicts[mapping] = [ord |-> dct.ord, order |-> ord2, ref |-> ref2],
                        !.sets = (id :> {value}) @@ @]

(***************************************************************************)
(* Relation._remove, _remove_domain, _remove_range                         *)
(***************************************************************************)
\* a faulty variant: a set that holds the reference is emptied, not stripped
RECURSIVE RemoveScanClear(_, _, _, _, _)
RemoveScanClear(st, mapping, reference, keys, empty) ==
    IF keys = <<>> THEN [st |-> st, empty |-> empty]
    ELSE LET key == Head(keys)
             sid == st.dicts[mapping].ref[key]
             st1 == IF reference \in st.sets[sid]
                    THEN [st EXCEPT !.sets[sid] = {}]
                    ELSE st
             e1  == IF Cardinality(st1.sets[sid]) = 0 THEN Append(empty, key) ELSE empty
         IN  RemoveScanClear(st1, mapping, reference, Tail(keys), e1)

\* the first loop of _remove: strip reference from every value set, and mark
\* the keys whose set is empty
RECURSIVE RemoveScan(_, _, _, _, _)
RemoveScan(st, mapping, reference, keys, empty) ==
    IF keys = <<>> THEN [st |-> st, empty |-> empty]
    ELSE LET key == Head(keys)
             sid == st.dicts[mapping].ref[key]
             st1 == IF reference \in st.sets[sid]
                    THEN [st EXCEPT !.sets[sid] = @ \ {reference},
                                    !.kept = @ \/ st.sets[sid] # {reference}]
                    ELSE st
             e1  == IF Cardinality(st1.sets[sid]) = 0 THEN Append(empty, key) ELSE empty
         IN  RemoveScan(st1, mapping, reference, Tail(keys), e1)

\* a faulty variant: the marked keys are left in the mapping
RemoveEmptySkip(st, mapping, empty) == st

\* the second loop of _remove: delete the marked keys
RECURSIVE RemoveEmpty(_, _, _)
RemoveEmpty(st, mapping, empty) ==
    IF empty = <<>> THEN st
    ELSE RemoveEmpty(DictDel(st, mapping, Head(empty)), mapping, Tail(empty))

_remove(st, mapping, reference) ==
    LET r == RemoveScan(st, mapping, reference, st.dicts[mapping].order, <<>>)
    IN  RemoveEmpty([r.st EXCEPT !.swept = @ \/ r.empty # <<>>], mapping, r.empty)

\* a faulty variant: the key is deleted from forward, inverse is not cleaned
_remove_domain_only(st, self, key) ==
    IF ~DictHas(st, st.rel[self].forward, key) THEN Raise(st, "KeyError")
    ELSE DictDel(st, st.rel[self].forward, key)

_remove_domain(st, self, key) ==
    IF ~DictHas(st, st.rel[self].forward, key) THEN Raise(st, "KeyError")
    ELSE _remove(DictDel(st, st.rel[self].forward, key), st.rel[self].inverse, key)

\* a faulty variant: the key is deleted from inverse, forward is not cleaned
_remove_range_only(st, self, key) ==
    IF ~DictHas(st, st.rel[self].inverse, key) THEN Raise(st, "KeyError")
    ELSE DictDel(st, st.rel[self].inverse, key)

_remove_range(st, self, key) ==
    IF ~DictHas(st, st.rel[self].inverse, key) THEN Raise(st, "KeyError")
    ELSE _remove(DictDel(st, st.rel[self].inverse, key), st.rel[self].forward, key)

(***************************************************************************)
(* Relation.__setitem__                                                    *)
(***************************************************************************)
\* the body of the two loops, for one d and one t; domainSide and rangeSide
\* are the cardinality lists of lines 98 and 101
EvictWith(st, self, d, t, domainSide, rangeSide) ==
    LET card == st.rel[self].cardinality
        hitD == card \in domainSide /\ DictHas(st, st.rel[self].forward, d)
        st1  == IF hitD
                THEN [_remove_domain(st, self, d) EXCEPT
                          !.evD = @ \cup DictGet(st, st.rel[self].forward, d)]
                ELSE st
        hitT == card \in rangeSide /\ DictHas(st1, st1.rel[self].inverse, t)
        st2  == IF hitT
                THEN [_remove_range(st1, self, t) EXCEPT
                          !.evT = @ \cup DictGet(st1, st1.rel[self].inverse, t)]
                ELSE st1
        st3  == SetDefaultAdd(st2, st2.rel[self].forward, d, t)
    IN  SetDefaultAdd(st3, st3.rel[self].inverse, t, d)

\* a faulty variant: the range side is never evicted
SetPairNoEvictT(st, self, d, t) == EvictWith(st, self, d, t, {"1:1", "M:1"}, {})

\* a faulty variant: the domain side is evicted under M:1 only
SetPairNoEvictD(st, self, d, t) == EvictWith(st, self, d, t, {"M:1"}, {"1:1", "1:M"})

\* a faulty variant: M:1 evicts on the range side as well
SetPairEvictBoth(st, self, d, t) ==
    EvictWith(st, self, d, t, {"1:1", "M:1"}, {"1:1", "1:M", "M:1"})

\* a faulty variant: after an eviction the pair is not added
SetPairNoReadd(st, self, d, t) ==
    LET card == st.rel[self].cardinality
        hitD == card \in {"1:1", "M:1"} /\ DictHas(st, st.rel[self].forward, d)
        st1  == IF hitD THEN _remove_domain(st, self, d) ELSE st
        hitT == card \in {"1:1", "1:M"} /\ DictHas(st1, st1.rel[self].inverse, t)
        st2  == IF hitT THEN _remove_range(st1, self, t) ELSE st1
        st3  == SetDefaultAdd(st2, st2.rel[self].forward, d, t)
    IN  IF hitD \/ hitT THEN st2
        ELSE SetDefaultAdd(st3, st3.rel[self].inverse, t, d)

\* a faulty variant: both tests are made before either eviction, and the call
\* ends when del raises
SetPairStaleTest(st, self, d, t) ==
    LET card == st.rel[self].cardinality
        hitD == card \in {"1:1", "M:1"} /\ DictHas(st, st.rel[self].forward, d)
        hitT == card \in {"1:1", "1:M"} /\ DictHas(st, st.rel[self].inverse, t)
        st1  == IF hitD THEN _remove_domain(st, self, d) ELSE st
        st2  == IF hitT THEN _remove_range(st1, self, t) ELSE st1
        st3  == SetDefaultAdd(st2, st2.rel[self].forward, d, t)
    IN  IF st2.err # "none" THEN st2
        ELSE SetDefaultAdd(st3, st3.rel[self].inverse, t, d)

SetPair(st, self, d, t) == EvictWith(st, self, d, t, {"1:1", "M:1"}, {"1:1", "1:M"})

RECURSIVE ForTarget(_, _, _, _)
ForTarget(st, self, d, target) ==
    IF target = <<>> THEN st
    ELSE ForTarget(SetPair(st, self, d, Head(target)), self, d, Tail(target))

RECURSIVE ForDomain(_, _, _, _)
ForDomain(st, self, domain, target) ==
    IF domain = <<>> THEN st
    ELSE ForDomain(ForTarget(st, self, Head(domain), target), self, Tail(domain), target)

\* domain and target are the arguments in their iteration order: a key that
\* is not a set is the one-element list [key]
__setitem__(st, self, domain, target) == ForDomain(st, self, domain, target)

(***************************************************************************)
(* Views of a Relation's contents.                                         *)
(***************************************************************************)
\* the dictionary mapping as a value: key -> set of keys
Content(ds, ss, mapping) == [k \in DOMAIN ds[mapping].ref |-> ss[ds[mapping].ref[k]]]

Forward(n) == Content(dicts, sets, rel[n].forward)
Inverse(n) == Content(dicts, sets, rel[n].inverse)

\* the pairings a key -> set-of-keys map holds
Pairs(f) == {<<k, v>> \in Keys \X Keys : k \in DOMAIN f /\ v \in f[k]}
Transposed(P) == {<<p[2], p[1]>> : p \in P}

(***************************************************************************)
(* Relation.__init__ without initial data                                  *)
(***************************************************************************)
\* the first identity no Relation other than self holds
NewDict(r, self, taken) ==
    CHOOSE m \in 1 .. NumDicts :
        /\ m \notin taken
        /\ m \notin LiveDicts([n \in (DOMAIN r) \ {self} |-> r[n]])
        /\ \A h \in 1 .. m - 1 :
               h \in taken \/ h \in LiveDicts([n \in (DOMAIN r) \ {self} |-> r[n]])

__init__(st, self, cls, cardinality, ordered) ==
    LET f  == NewDict(st.rel, self, {})
        i  == NewDict(st.rel, self, {f})
        d2 == (f :> EmptyDict(ordered)) @@ (i :> EmptyDict(ordered)) @@ st.dicts
        \* lines 35-40: the two dictionaries are bound first
        old == IF self \in DOMAIN st.rel THEN st.rel[self]
               ELSE [cls |-> cls, cardinality |-> "unset", forward |-> f, inverse |-> i]
        r1 == (self :> [old EXCEPT !.forward = f, !.inverse = i]) @@ st.rel
        r2 == [r1 EXCEPT ![self].cardinality = cardinality]
    IN  IF cardinality \notin CARDINALITIES
        THEN IF self \in DOMAIN st.rel
             THEN Raise(Release([st EXCEPT !.rel = r1, !.dicts = d2]), "RelationError")
             ELSE Raise(st, "RelationError")
        ELSE Release([st EXCEPT !.rel = r2, !.dicts = d2])

isordered(st, self) == st.dicts[st.rel[self].forward].ord

\* keys(): the keys of forward in the order of the dictionary
keys(st, self) == st.dicts[st.rel[self].forward].order

(***************************************************************************)
(* Relation.__getitem__, and pop, which Relation inherits from             *)
(* MutableMapping: value = self[key]; del self[key]; return value          *)
(***************************************************************************)
NoValue == [kind |-> "none", val |-> {}]

\* a faulty variant: the set is returned under every cardinality
__getitem__AlwaysSet(st, self, domain) ==
    IF ~DictHas(st, st.rel[self].forward, domain)
    THEN {[st |-> Raise(st, "KeyError"), ret |-> [kind |-> "none", val |-> {}]]}
    ELSE {[st |-> st, ret |-> [kind |-> "set",
                               val |-> DictGet(st, st.rel[self].forward, domain)]]}

\* a faulty variant: a missing key is given an empty set, as a defaultdict does
__getitem__Default(st, self, domain) ==
    LET f   == st.rel[self].forward
        v   == DictGet(st, f, domain)
        id  == NewSet(st, f, domain)
        dct == st.dicts[f]
        ref2 == (domain :> id) @@ dct.ref
        ord2 == IF dct.ord THEN Append(dct.order, domain) ELSE SortedSeq(DOMAIN ref2)
    IN  IF ~DictHas(st, f, domain)
        THEN {[st  |-> [st EXCEPT !.dicts[f] = [ord |-> dct.ord, order |-> ord2, ref |-> ref2],
                                  !.sets = (id :> {}) @@ @],
               ret |-> [kind |-> "set", val |-> {}]]}
        ELSE IF st.rel[self].cardinality \in {"1:1", "M:1"}
             THEN {[st |-> st, ret |-> [kind |-> "key", val |-> {t}]] : t \in v}
             ELSE {[st |-> st, ret |-> [kind |-> "set", val |-> v]]}

\* the results __getitem__ can give: under 1:1 and M:1 the first element the
\* set yields (any of them), or None when the set yields nothing
__getitem__(st, self, domain) ==
    IF ~DictHas(st, st.rel[self].forward, domain)
    THEN {[st |-> Raise(st, "KeyError"), ret |-> NoValue]}
    ELSE LET v == DictGet(st, st.rel[self].forward, domain)
         IN  IF st.rel[self].cardinality \in {"1:1", "M:1"}
             THEN IF v = {} THEN {[st |-> st, ret |-> NoValue]}
                  ELSE {[st |-> st, ret |-> [kind |-> "key", val |-> {t}]] : t \in v}
             ELSE {[st |-> st, ret |-> [kind |-> "set", val |-> v]]}

pop(st, self, key) ==
    {IF g.st.err # "none" THEN g
     ELSE [st |-> _remove_domain(g.st, self, key), ret |-> g.ret] :
         g \in __getitem__(st, self, key)}

(***************************************************************************)
(* Relation.extend                                                         *)
(***************************************************************************)
\* a faulty variant: the pairs are taken in the reverse of the iteration order
RECURSIVE ExtendLoopReversed(_, _, _)
ExtendLoopReversed(st, self, items) ==
    IF items = <<>> THEN st
    ELSE LET n == Len(items)
         IN  ExtendLoopReversed(__setitem__(st, self, <<items[n][1]>>, <<items[n][2]>>),
                                self, SubSeq(items, 1, n - 1))

\* the loop of extend over the keys of mapping, a sequence of <<key, value>>
RECURSIVE ExtendLoop(_, _, _)
ExtendLoop(st, self, items) ==
    IF items = <<>> THEN st
    ELSE ExtendLoop(__setitem__(st, self, <<Head(items)[1]>>, <<Head(items)[2]>>),
                    self, Tail(items))

\* the argument of extend: isMapping is isinstance(mapping, Mapping), items
\* the <<key, value>> pairs of a mapping in its iteration order
NotAMapping == [isMapping |-> FALSE, items |-> <<>>]

\* an argument that is not a Mapping but can be iterated: the list [(1, 1)]
PairList == [isMapping |-> FALSE, items |-> <<<<1, 1>>>>]

\* a faulty variant: the argument is merged first and checked afterwards
extendChecksLast(st, self, mapping) ==
    IF ~mapping.isMapping THEN Raise(ExtendLoop(st, self, mapping.items), "RelationError")
    ELSE ExtendLoop(st, self, mapping.items)

extend(st, self, mapping) ==
    IF ~mapping.isMapping THEN Raise(st, "RelationError")
    ELSE ExtendLoop(st, self, mapping.items)

(***************************************************************************)
(* Relation.clear                                                          *)
(***************************************************************************)
\* self.__init__(cardinality=..., ordered=...): Isomorphism, Function and
\* Partition define an __init__(self, init, ordered) that takes no cardinality
clear(st, self) ==
    IF st.rel[self].cls # "Relation" THEN Raise(st, "TypeError")
    ELSE __init__(st, self, st.rel[self].cls, st.rel[self].cardinality, isordered(st, self))

(***************************************************************************)
(* Relation.__invert__ and Relation.copy.  Both return a new Relation,     *)
(* which the caller binds to the name new.                                 *)
(***************************************************************************)
\* the name new no longer refers to the object it was bound to
Unbind(st, new) ==
    Release([st EXCEPT !.rel = [n \in (DOMAIN st.rel) \ {new} |-> st.rel[n]]])

\* a faulty variant: the new Relation keeps the two dictionaries of its own
__invert__Detached(st, self, new) ==
    __init__(Unbind(st, new), new, "Relation",
             INVERTED_CARDINALITY[st.rel[self].cardinality], FALSE)

\* a faulty variant: the new Relation takes the cardinality of self as it is
__invert__SameCardinality(st, self, new) ==
    LET st1 == __init__(Unbind(st, new), new, "Relation", st.rel[self].cardinality, FALSE)
        r2  == [st1.rel EXCEPT ![new].inverse = st.rel[self].forward,
                               ![new].forward = st.rel[self].inverse]
    IN  Release([st1 EXCEPT !.rel = r2])

__invert__(st, self, new) ==
    LET st1 == __init__(Unbind(st, new), new, "Relation",
                        INVERTED_CARDINALITY[st.rel[self].cardinality], FALSE)
        r2  == [st1.rel EXCEPT ![new].inverse = st.rel[self].forward,
                               ![new].forward = st.rel[self].inverse]
    IN  Release([st1 EXCEPT !.rel = r2])

\* target[key] = the set object sid
DictSet(st, target, key, sid) ==
    LET dct  == st.dicts[target]
        ref2 == (key :> sid) @@ dct.ref
        ord2 == IF key \in DOMAIN dct.ref THEN dct.order
                ELSE IF dct.ord THEN Append(dct.order, key)
                ELSE SortedSeq(DOMAIN ref2)
    IN  ReleaseSets([st EXCEPT !.dicts[target] =
                         [ord |-> dct.ord, order |-> ord2, ref |-> ref2]])

\* target.update(source): every key of source is bound to the same set object
RECURSIVE DictUpdate(_, _, _, _)
DictUpdate(st, target, source, todo) ==
    IF todo = <<>> THEN st
    ELSE DictUpdate(DictSet(st, target, Head(todo), st.dicts[source].ref[Head(todo)]),
                    target, source, Tail(todo))

copy(st, self, new) ==
    LET st1 == __init__(Unbind(st, new), new, "Relation",
                        st.rel[self].cardinality, isordered(st, self))
        st2 == DictUpdate(st1, st1.rel[new].forward, st.rel[self].forward,
                          st.dicts[st.rel[self].forward].order)
    IN  DictUpdate(st2, st2.rel[new].inverse, st.rel[self].inverse,
                   st.dicts[st.rel[self].inverse].order)

(***************************************************************************)
(* Arguments of the calls.                                                 *)
(***************************************************************************)
\* a single key k is passed as {k}: __setitem__ wraps it in a list; the empty
\* set is an argument as well
ArgSets(K) == {S \in SUBSET K : Cardinality(S) <= MaxArg}

\* single keys only
Singles(K) == {{k} : k \in K}

\* the external mappings given to extend: distinct keys in iteration order,
\* each with a single key as its value
Mappings(DK, RK) ==
    {[isMapping |-> TRUE, items |-> q] :
        q \in UNION {{q \in [1 .. n -> DK \X RK] :
                         \A i, j \in 1 .. n : i # j => q[i][1] # q[j][1]} :
                     n \in 0 .. MaxMap}}

\* M is the argument of extend
NoCall == [op |-> "init", on |-> "R", D |-> {}, T |-> {}, M |-> NotAMapping,
           err |-> "none", evD |-> {}, evT |-> {}, swept |-> FALSE, kept |-> FALSE,
           ret |-> [kind |-> "none", val |-> {}], since |-> 0]

\* the record of a call that ended in machine state st; since counts the
\* calls made while a copy C exists
Stamp(st, call) ==
    [call EXCEPT !.err = st.err, !.evD = st.evD, !.evT = st.evT,
                 !.swept = st.swept, !.kept = st.kept,
                 !.since = IF "C" \in DOMAIN rel THEN last.since + 1 ELSE 0]

Now == Machine(rel, dicts, sets)

(***************************************************************************)
(* The program: one Relation R, of any cardinality.                        *)
(***************************************************************************)
Empty == Machine(<<>>, <<>>, <<>>)

Init ==
    \E c \in CARDINALITIES :
        LET st == __init__(Empty, "R", "Relation", c, FALSE)
        IN  /\ rel = st.rel
            /\ dicts = st.dicts
            /\ sets = st.sets
            /\ last = NoCall

\* self[D] = T
Insert(self, DArgs, TArgs) ==
    \E D \in DArgs, T \in TArgs :
        \E domain \in Orders(D), target \in Orders(T) :
            LET st == __setitem__(Now, self, domain, target)
            IN  /\ self \in DOMAIN rel
                /\ rel' = st.rel
                /\ dicts' = st.dicts
                /\ sets' = st.sets
                /\ last' = Stamp(st, [NoCall EXCEPT !.op = "set", !.on = self,
                                                    !.D = D, !.T = T])

\* del self[key]
Delete(self, DK) ==
    \E key \in DK :
        LET st == _remove_domain(Now, self, key)
        IN  /\ self \in DOMAIN rel
            /\ rel' = st.rel
            /\ dicts' = st.dicts
            /\ sets' = st.sets
            /\ last' = Stamp(st, [NoCall EXCEPT !.op = "del", !.on = self, !.D = {key}])

\* self.pop(key)
Pop(self, DK) ==
    \E key \in DK :
        \E g \in pop(Now, self, key) :
            /\ rel' = g.st.rel
            /\ dicts' = g.st.dicts
            /\ sets' = g.st.sets
            /\ last' = Stamp(g.st, [NoCall EXCEPT !.op = "pop", !.on = self,
                                                  !.D = {key}, !.ret = g.ret])

\* self.extend(mapping)
Extend(self, DK, RK) ==
    \E mapping \in Mappings(DK, RK) \cup {NotAMapping, PairList} :
        LET st == extend(Now, self, mapping)
        IN  /\ rel' = st.rel
            /\ dicts' = st.dicts
            /\ sets' = st.sets
            /\ last' = Stamp(st, [NoCall EXCEPT !.op = "extend", !.on = self,
                                                !.M = mapping])

\* self.clear()
Clear(self) ==
    LET st == clear(Now, self)
    IN  /\ self \in DOMAIN rel
        /\ rel' = st.rel
        /\ dicts' = st.dicts
        /\ sets' = st.sets
        /\ last' = Stamp(st, [NoCall EXCEPT !.op = "clear", !.on = self])

Next ==
    \/ Insert("R", ArgSets(DomKeys), ArgSets(RngKeys))
    \/ Delete("R", DomKeys)
    \/ Pop("R", DomKeys)
    \/ Extend("R", DomKeys, RngKeys)
    \/ Clear("R")

Spec == Init /\ [][Next]_vars

(***************************************************************************)
(* The program with an inverted view: V = ~R, then single-key inserts,     *)
(* deletes and clears through either object.                               *)
(***************************************************************************)
\* new = ~self
Invert(self, new) ==
    LET st == __invert__(Now, self, new)
    IN  /\ self \in DOMAIN rel
        /\ rel' = st.rel
        /\ dicts' = st.dicts
        /\ sets' = st.sets
        /\ last' = Stamp(st, [NoCall EXCEPT !.op = "invert", !.on = self])

NextAlias ==
    \/ Invert("R", "V")
    \/ Insert("R", Singles(SharedKeys), Singles(SharedKeys))
    \/ Insert("V", Singles(SharedKeys), Singles(SharedKeys))
    \/ Delete("R", SharedKeys)
    \/ Delete("V", SharedKeys)
    \/ Clear("R")
    \/ Clear("V")

SpecAlias == Init /\ [][NextAlias]_vars

(***************************************************************************)
(* The program with a copy: C = R.copy(), then single-key inserts and      *)
(* deletes on either object.                                               *)
(***************************************************************************)
\* new = self.copy()
Copy(self, new) ==
    LET st == copy(Now, self, new)
    IN  /\ self \in DOMAIN rel
        /\ rel' = st.rel
        /\ dicts' = st.dicts
        /\ sets' = st.sets
        /\ last' = Stamp(st, [NoCall EXCEPT !.op = "copy", !.on = self])

\* the copy is taken once, and MaxCalls calls are followed after it
MayCall == last.since < MaxCalls

NextCopy ==
    \/ "C" \notin DOMAIN rel /\ Copy("R", "C")
    \/ MayCall /\ Insert("R", Singles(SharedKeys), Singles(SharedKeys))
    \/ MayCall /\ Insert("C", Singles(SharedKeys), Singles(SharedKeys))
    \/ MayCall /\ Delete("R", SharedKeys)
    \/ MayCall /\ Delete("C", SharedKeys)

SpecCopy == Init /\ [][NextCopy]_vars

(***************************************************************************)
(* The named classes Isomorphism, Function and Partition: each __init__    *)
(* takes (init, ordered) and calls Relation.__init__ with the cardinality  *)
(* pre-set.                                                                *)
(***************************************************************************)
Isomorphism(st, self, ordered) == __init__(st, self, "Isomorphism", "1:1", ordered)

Function(st, self, ordered) == __init__(st, self, "Function", "M:1", ordered)

Partition(st, self, ordered) == __init__(st, self, "Partition", "1:M", ordered)

\* every way to construct an empty relation R
Constructed ==
    UNION {{__init__(Empty, "R", "Relation", c, ordered) : c \in CARDINALITIES}
           \cup {Isomorphism(Empty, "R", ordered), Function(Empty, "R", ordered),
                 Partition(Empty, "R", ordered)} : ordered \in BOOLEAN}

\* the program with R of any class, ordered or not: single-key inserts,
\* deletes and clears
InitNamed ==
    \E st \in Constructed :
        /\ rel = st.rel
        /\ dicts = st.dicts
        /\ sets = st.sets
        /\ last = NoCall

NextNamed ==
    \/ Insert("R", Singles(SharedKeys), Singles(SharedKeys))
    \/ Delete("R", SharedKeys)
    \/ Clear("R")

SpecNamed == InitNamed /\ [][NextNamed]_vars

(***************************************************************************)
(* The program with a double inversion: V = ~R and W = ~V, then single-key *)
(* inserts and deletes through any of the three objects.                   *)
(***************************************************************************)
NextDouble ==
    \/ Invert("R", "V")
    \/ Invert("V", "W")
    \/ Insert("R", Singles(SharedKeys), Singles(SharedKeys))
    \/ Insert("V", Singles(SharedKeys), Singles(SharedKeys))
    \/ Insert("W", Singles(SharedKeys), Singles(SharedKeys))
    \/ Delete("R", SharedKeys)
    \/ Delete("V", SharedKeys)
    \/ Delete("W", SharedKeys)

SpecDouble == Init /\ [][NextDouble]_vars

(***************************************************************************)
(* The program with lookups: inserts, deletes and self[key] on one         *)
(* Relation of any cardinality.                                            *)
(***************************************************************************)
\* self[key]
Get(self, DK) ==
    \E key \in DK :
        \E g \in __getitem__(Now, self, key) :
            /\ rel' = g.st.rel
            /\ dicts' = g.st.dicts
            /\ sets' = g.st.sets
            /\ last' = Stamp(g.st, [NoCall EXCEPT !.op = "get", !.on = self,
                                                  !.D = {key}, !.ret = g.ret])

NextLookup ==
    \/ Insert("R", ArgSets(DomKeys), ArgSets(RngKeys))
    \/ Delete("R", DomKeys)
    \/ Get("R", DomKeys)

SpecLookup == Init /\ [][NextLookup]_vars

(***************************************************************************)
(* The program in ordered mode: R = Relation(cardinality=c, ordered=True), *)
(* then single-key inserts, deletes and pops.                              *)
(***************************************************************************)
InitOrdered ==
    \E c \in CARDINALITIES :
        LET st == __init__(Empty, "R", "Relation", c, TRUE)
        IN  /\ rel = st.rel
            /\ dicts = st.dicts
            /\ sets = st.sets
            /\ last = NoCall

NextOrdered ==
    \/ Insert("R", Singles(DomKeys), Singles(RngKeys))
    \/ Delete("R", DomKeys)
    \/ Pop("R", DomKeys)

SpecOrdered == InitOrdered /\ [][NextOrdered]_vars

(***************************************************************************)
(* Properties of one Relation.                                             *)
(***************************************************************************)
Card(n) == rel[n].cardinality

\* t in forward[d] <=> d in inverse[t], for the maps f and i
IsTranspose(f, i) ==
    \A d \in Keys, t \in Keys :
        (d \in DOMAIN f /\ t \in f[d]) <=> (t \in DOMAIN i /\ d \in i[t])

NoEmptySet(f) == \A k \in DOMAIN f : f[k] # {}

Singletons(f) == \A k \in DOMAIN f : Cardinality(f[k]) = 1

\* C1: after every operation on R, t is in forward[d] exactly when d is in
\* inverse[t], for every domain key d and range key t.
C1_Transpose == IsTranspose(Forward("R"), Inverse("R"))

\* C1 witness: an insert that evicted on both sides and cascaded, leaving a
\* relation that still holds pairings.
C1_Witness ==
    /\ last.op = "set" /\ last.evD # {} /\ last.evT # {} /\ last.swept
    /\ Cardinality(Pairs(Forward("R"))) >= 2

\* C2: after every operation on R, no key of forward and no key of inverse
\* maps to an empty set.
C2_NoEmptySets == NoEmptySet(Forward("R")) /\ NoEmptySet(Inverse("R"))

\* C2 witness: an insert into a 1:M relation whose range-side eviction
\* emptied the set of another domain key, which was then deleted.
C2_Witness ==
    /\ last.op = "set" /\ Card("R") = "1:M" /\ last.evT # {} /\ last.swept
    /\ Cardinality(DOMAIN Forward("R")) >= 2

\* C3: under 1:1 and M:1 every set in forward has exactly one element, and
\* under 1:1 and 1:M every set in inverse has exactly one element.
C3_Uniqueness ==
    /\ Card("R") \in {"1:1", "M:1"} => Singletons(Forward("R"))
    /\ Card("R") \in {"1:1", "1:M"} => Singletons(Inverse("R"))

\* C3 witness: a Cartesian insert of two domain keys and two range keys into
\* a 1:1 relation, which evicted on both sides.
C3_Witness ==
    /\ last.op = "set" /\ Card("R") = "1:1"
    /\ Cardinality(last.D) = 2 /\ Cardinality(last.T) = 2
    /\ last.evD # {} /\ last.evT # {}
    /\ Forward("R") # <<>>

(***************************************************************************)
(* Effects of one call, stated on a step: unprimed is the relation before  *)
(* the call, primed the relation after it, last' the call.                 *)
(***************************************************************************)
OneKey(S) == CHOOSE k \in S : TRUE

\* the call was self[d] = t on R with single keys d and t
IsPairInsert(call) ==
    /\ call.op = "set" /\ call.on = "R"
    /\ Cardinality(call.D) = 1 /\ Cardinality(call.T) = 1

\* the value set of key k in the map f, empty when k is absent
At(f, k) == IF k \in DOMAIN f THEN f[k] ELSE {}

\* key k has the same entry, or no entry, in f and g
SameEntry(f, g, k) == (k \in DOMAIN f <=> k \in DOMAIN g) /\ At(f, k) = At(g, k)

\* C4: under 1:1, after self[d] = t, forward[d] = {t} and inverse[t] = {d};
\* an earlier range key of d is absent from inverse and an earlier domain key
\* of t is absent from forward; pairings with neither d nor t are unchanged.
C4_OneToOneInsert ==
    [][(IsPairInsert(last') /\ Card("R") = "1:1") =>
        LET d  == OneKey(last'.D)
            t  == OneKey(last'.T)
            F  == Forward("R")
            I  == Inverse("R")
            F2 == Forward("R")'
            I2 == Inverse("R")'
        IN  /\ d \in DOMAIN F2 /\ F2[d] = {t}
            /\ t \in DOMAIN I2 /\ I2[t] = {d}
            /\ \A t0 \in At(F, d) \ {t} : t0 \notin DOMAIN I2
            /\ \A d1 \in At(I, t) \ {d} : d1 \notin DOMAIN F2
            /\ \A k \in Keys \ {d} : At(I, t) # {k} => SameEntry(F, F2, k)
            /\ \A k \in Keys \ {t} : At(F, d) # {k} => SameEntry(I, I2, k)
            /\ \A q \in Keys \X Keys :
                   (q[1] # d /\ q[2] # t) => (q \in Pairs(F) <=> q \in Pairs(F2))
    ]_vars

\* C4 witness: a 1:1 insert of (d, t) that evicted an earlier pairing of d
\* with another range key and an earlier pairing of t with another domain key.
C4_Witness ==
    /\ IsPairInsert(last) /\ Card("R") = "1:1"
    /\ last.evD # {} /\ last.evD \cap last.T = {}
    /\ last.evT # {} /\ last.evT \cap last.D = {}
    /\ Forward("R")[OneKey(last.D)] = last.T

\* C5: under M:1, after self[d] = t, d maps to t only; the range key d had
\* before stays in inverse exactly when another domain key holds it; every
\* other domain key keeps the range value it had.
C5_FunctionInsert ==
    [][(IsPairInsert(last') /\ Card("R") = "M:1") =>
        LET d  == OneKey(last'.D)
            t  == OneKey(last'.T)
            F  == Forward("R")
            F2 == Forward("R")'
            I2 == Inverse("R")'
        IN  /\ d \in DOMAIN F2 /\ F2[d] = {t}
            /\ \A t0 \in At(F, d) \ {t} :
                   t0 \in DOMAIN I2 <=> \E d1 \in (DOMAIN F) \ {d} : t0 \in F[d1]
            /\ \A d1 \in Keys \ {d} : SameEntry(F, F2, d1)
            /\ \A d1 \in (DOMAIN F) \ {d} : \A t1 \in F[d1] : d1 \in At(I2, t1)
    ]_vars

\* C5 witness: an M:1 insert that replaced the range key of d, a key another
\* domain key still holds, with a range key that another domain key holds too.
C5_Witness ==
    /\ IsPairInsert(last) /\ Card("R") = "M:1"
    /\ last.evD # {} /\ last.evD \cap last.T = {}
    /\ last.evD \subseteq DOMAIN Inverse("R")
    /\ Cardinality(Inverse("R")[OneKey(last.T)]) >= 2

\* C6: under 1:M, after self[d] = t, inverse[t] = {d}; d keeps the range keys
\* it had and gains t; another domain key that held t loses it, and leaves
\* forward when t was its only range key; everything else is unchanged.
C6_PartitionInsert ==
    [][(IsPairInsert(last') /\ Card("R") = "1:M") =>
        LET d  == OneKey(last'.D)
            t  == OneKey(last'.T)
            F  == Forward("R")
            I  == Inverse("R")
            F2 == Forward("R")'
            I2 == Inverse("R")'
        IN  /\ t \in DOMAIN I2 /\ I2[t] = {d}
            /\ d \in DOMAIN F2 /\ F2[d] = At(F, d) \cup {t}
            /\ \A d1 \in Keys \ {d} :
                   /\ At(F2, d1) = At(F, d1) \ {t}
                   /\ d1 \in DOMAIN F2 <=> At(F, d1) \ {t} # {}
            /\ \A t1 \in Keys \ {t} : SameEntry(I, I2, t1)
    ]_vars

\* C6 witness: a 1:M insert of (d, t) where d already held another range
\* key and the domain key that held t, and nothing else, left forward.
C6_Witness ==
    /\ IsPairInsert(last) /\ Card("R") = "1:M"
    /\ last.evT # {} /\ last.evT \cap last.D = {} /\ last.swept
    /\ Cardinality(Forward("R")[OneKey(last.D)]) >= 2

\* C7: under M:N, after self[D] = T (keys or sets of keys), the pairings are
\* those before united with D x T: nothing is evicted, and the value set of a
\* domain key only grows.
C7_AdditiveInsert ==
    [][(last'.op = "set" /\ last'.on = "R" /\ Card("R") = "M:N") =>
        LET F  == Forward("R")
            F2 == Forward("R")'
            I2 == Inverse("R")'
        IN  /\ Pairs(F2) = Pairs(F) \cup (last'.D \X last'.T)
            /\ Pairs(I2) = Transposed(Pairs(F) \cup (last'.D \X last'.T))
            /\ \A d \in DOMAIN F : d \in DOMAIN F2 /\ F[d] \subseteq F2[d]
            /\ last'.evD = {} /\ last'.evT = {}
    ]_vars

\* C7 witness: an M:N insert of two domain keys and two range keys into a
\* relation that also holds a pairing outside their product.
C7_Witness ==
    /\ last.op = "set" /\ Card("R") = "M:N"
    /\ Cardinality(last.D) = 2 /\ Cardinality(last.T) = 2
    /\ Pairs(Forward("R")) \ (last.D \X last.T) # {}

\* C8: after del self[d] for a present d, d is absent from forward and from
\* every set in inverse; a range key whose only domain key was d is absent
\* from inverse, a range key shared with another domain key stays, without
\* d; the entries of the other domain keys are unchanged.
C8_RemovalCascade ==
    [][(last'.op = "del" /\ last'.on = "R" /\ last'.err = "none") =>
        LET d  == OneKey(last'.D)
            F  == Forward("R")
            I  == Inverse("R")
            F2 == Forward("R")'
            I2 == Inverse("R")'
        IN  /\ d \in DOMAIN F
            /\ d \notin DOMAIN F2
            /\ \A t \in DOMAIN I2 : d \notin I2[t]
            /\ \A t \in DOMAIN I :
                   IF I[t] = {d} THEN t \notin DOMAIN I2
                   ELSE t \in DOMAIN I2 /\ I2[t] = I[t] \ {d}
            /\ DOMAIN I2 \subseteq DOMAIN I
            /\ \A d1 \in Keys \ {d} : SameEntry(F, F2, d1)
    ]_vars

\* C8 witness: a delete whose cascade removed one range key from inverse and
\* left another, shared with a remaining domain key, in it.
C8_Witness ==
    /\ last.op = "del" /\ last.err = "none"
    /\ last.swept /\ last.kept
    /\ Forward("R") # <<>>

(***************************************************************************)
(* Two Relation objects.                                                   *)
(***************************************************************************)
\* C9: for V = ~R, after any inserts, deletes and clears through R or V,
\* V.forward equals R.inverse and V.inverse equals R.forward.
C9_AliasedInversion ==
    "V" \in DOMAIN rel =>
        /\ Forward("V") = Inverse("R")
        /\ Inverse("V") = Forward("R")

\* C10: C = R.copy() has the cardinality and the pairings of R at the call;
\* an insert or delete on R afterwards leaves forward and inverse of C
\* unchanged, one on C leaves those of R unchanged, and C keeps the
\* transpose invariant.
C10_IndependentCopy ==
    [][/\ last'.op = "copy" =>
           /\ rel'["C"].cardinality = rel["R"].cardinality
           /\ Forward("C")' = Forward("R") /\ Inverse("C")' = Inverse("R")
       /\ ("C" \in DOMAIN rel /\ last'.op \in {"set", "del"}) =>
           /\ last'.on = "R" =>
                  Forward("C")' = Forward("C") /\ Inverse("C")' = Inverse("C")
           /\ last'.on = "C" =>
                  Forward("R")' = Forward("R") /\ Inverse("R")' = Inverse("R")
           /\ IsTranspose(Forward("C")', Inverse("C")')
    ]_vars

(***************************************************************************)
(* clear()                                                                 *)
(***************************************************************************)
\* C11: clear() on a relation of any class (Relation, Isomorphism, Function,
\* Partition) completes without error and leaves forward and inverse empty,
\* with cardinality and ordering mode unchanged.
C11_Clear ==
    [][last'.op = "clear" =>
        /\ last'.err = "none"
        /\ Forward("R")' = <<>> /\ Inverse("R")' = <<>>
        /\ Card("R")' = Card("R")
        /\ isordered(Now, "R")' = isordered(Now, "R")
    ]_vars

(***************************************************************************)
(* Inversion                                                               *)
(***************************************************************************)
\* the cardinality the inversion of a relation of cardinality c must have
Swapped(c) ==
    CASE c = "1:1" -> "1:1"
      [] c = "1:M" -> "M:1"
      [] c = "M:1" -> "1:M"
      [] c = "M:N" -> "M:N"

\* C12: V = ~R has the swapped cardinality of R and the pairing (t, d)
\* exactly when R has (d, t); W = ~V has the cardinality and the pairings of
\* R; an insert made through W puts its pair into R and a delete made through
\* W takes its key out of R.
C12_InversionInvolution ==
    /\ []("V" \in DOMAIN rel =>
            /\ Card("V") = Swapped(Card("R"))
            /\ Pairs(Forward("V")) = Transposed(Pairs(Forward("R"))))
    /\ []("W" \in DOMAIN rel =>
            /\ Card("W") = Card("R")
            /\ Forward("W") = Forward("R") /\ Inverse("W") = Inverse("R"))
    /\ [][(last'.on = "W" /\ last'.err = "none") =>
            /\ last'.op = "set" =>
                   <<OneKey(last'.D), OneKey(last'.T)>> \in Pairs(Forward("R"))'
            /\ last'.op = "del" => OneKey(last'.D) \notin DOMAIN Forward("R")'
       ]_vars

\* C12 witness: an insert through W = ~~R into an M:1 relation R that replaced
\* the range key of a domain key of R.
C12_Witness ==
    /\ "W" \in DOMAIN rel /\ Card("R") = "M:1" /\ Card("V") = "1:M"
    /\ last.op = "set" /\ last.on = "W"
    /\ last.evD # {} /\ last.evD \cap last.T = {}
    /\ Forward("R")[OneKey(last.D)] = last.T

(***************************************************************************)
(* Lookups and failed calls                                                *)
(***************************************************************************)
\* C13: self[d] and del self[d] for a key d that is absent from forward fail
\* with KeyError and leave the Relation, its dictionaries and their sets
\* exactly as they were.
C13_MissingKey ==
    [][(/\ last'.op \in {"get", "del"} /\ last'.on = "R"
        /\ OneKey(last'.D) \notin DOMAIN Forward("R")) =>
        /\ last'.err = "KeyError"
        /\ rel' = rel /\ dicts' = dicts /\ sets' = sets
    ]_vars

\* C13 witness: a lookup of an absent key failed on a relation that holds
\* two other domain keys.
C13_Witness ==
    /\ last.op = "get" /\ last.err = "KeyError"
    /\ OneKey(last.D) \notin DOMAIN Forward("R")
    /\ Cardinality(DOMAIN Forward("R")) = 2

(***************************************************************************)
(* extend                                                                  *)
(***************************************************************************)
\* C14: extend with an argument that is not a Mapping fails with
\* RelationError, and forward and inverse are the same before and after.
C14_ExtendRejects ==
    [][(last'.op = "extend" /\ ~last'.M.isMapping) =>
        /\ last'.err = "RelationError"
        /\ Forward("R")' = Forward("R") /\ Inverse("R")' = Inverse("R")
        /\ rel' = rel /\ dicts' = dicts /\ sets' = sets
    ]_vars

\* C14 witness: extend was given a list of pairs, failed, and the relation
\* holds pairings, none of them the pair of the list.
C14_Witness ==
    /\ last.op = "extend" /\ last.M = PairList /\ last.err = "RelationError"
    /\ Forward("R") # <<>>
    /\ <<1, 1>> \notin Pairs(Forward("R"))

\* self[k] = m[k] for each key k of the mapping, one call after the other
RECURSIVE InsertEach(_, _, _)
InsertEach(st, self, items) ==
    IF items = <<>> THEN st
    ELSE InsertEach(__setitem__(st, self, <<Head(items)[1]>>, <<Head(items)[2]>>),
                    self, Tail(items))

\* the keys of a mapping
MapKeys(mapping) == {mapping.items[i][1] : i \in DOMAIN mapping.items}

\* C15: extend(m) with a mapping m leaves the relation in the state that
\* self[k] = m[k] for each key k of m, in the iteration order of m, leads to;
\* under M:N, when no key of m is a domain key, the length grows by the
\* number of keys of m, also when a key of m is a range key.
C15_ExtendIsRepeatedInsert ==
    [][(last'.op = "extend" /\ last'.M.isMapping) =>
        LET ref == InsertEach(Now, "R", last'.M.items)
        IN  /\ last'.err = "none"
            /\ rel' = ref.rel /\ dicts' = ref.dicts /\ sets' = ref.sets
            /\ (Card("R") = "M:N" /\ MapKeys(last'.M) \cap DOMAIN Forward("R") = {}) =>
                   Cardinality(DOMAIN Forward("R")') =
                       Cardinality(DOMAIN Forward("R")) + Len(last'.M.items)
    ]_vars

\* C15 witness: an M:N relation was extended with a mapping of two keys, one
\* of them a range key as well, and holds three domain keys.
C15_Witness ==
    /\ last.op = "extend" /\ last.M.isMapping /\ Len(last.M.items) = 2
    /\ Card("R") = "M:N"
    /\ MapKeys(last.M) \cap DOMAIN Inverse("R") # {}
    /\ Cardinality(DOMAIN Forward("R")) = 3

\* C16: for a domain key d that is present, self[d] returns, under 1:1 and
\* M:1, the one range key t with (d, t) in the relation, and under 1:M and
\* M:N the set of all range keys t with (d, t) in the relation; it never
\* returns an empty set or no value.
C16_LookupResult ==
    [][(/\ last'.op = "get" /\ last'.on = "R"
        /\ OneKey(last'.D) \in DOMAIN Forward("R")) =>
        LET d     == OneKey(last'.D)
            range == {t \in Keys : <<d, t>> \in Pairs(Forward("R"))}
        IN  /\ last'.err = "none"
            /\ range # {}
            /\ last'.ret.val = range
            /\ IF Card("R") \in {"1:1", "M:1"}
               THEN last'.ret.kind = "key" /\ Cardinality(range) = 1
               ELSE last'.ret.kind = "set"
            /\ rel' = rel /\ dicts' = dicts /\ sets' = sets
    ]_vars

\* C16 witness: a lookup in an M:1 relation returned the range key that two
\* domain keys share.
C16_Witness ==
    /\ last.op = "get" /\ last.err = "none" /\ Card("R") = "M:1"
    /\ last.ret.kind = "key"
    /\ Cardinality(Inverse("R")[OneKey(last.ret.val)]) = 2

(***************************************************************************)
(* Ordered mode                                                            *)
(***************************************************************************)
\* the sequence q without the elements outside S
Restrict(q, S) == SelectSeq(q, LAMBDA x : x \in S)

\* C18: in ordered mode keys() lists the domain keys that are present, each
\* once, in the order in which they were added to forward: a call leaves the
\* keys that stay in forward in their order and puts a key it adds after
\* them; under M:N an insert for a key that is present moves nothing; a
\* delete or pop takes its key out and leaves the order of the others.
C18_OrderedKeys ==
    [][(last'.on = "R" /\ last'.op \in {"set", "del", "pop"} /\ last'.err = "none") =>
        LET d  == OneKey(last'.D)
            t  == OneKey(last'.T)
            F  == Forward("R")
            K  == keys(Now, "R")
            K2 == keys(Now, "R")'
            \* the insert took d out of forward before it added the pair
            readded == \/ last'.evD # {}
                       \/ d \in last'.evT /\ At(F, d) = {t}
        IN  /\ Len(K2) = Cardinality(DOMAIN Forward("R")')
            /\ {K2[i] : i \in DOMAIN K2} = DOMAIN Forward("R")'
            /\ last'.op = "set" =>
                   K2 = IF d \notin DOMAIN F \/ readded
                        THEN Append(Restrict(K, (DOMAIN Forward("R")') \ {d}), d)
                        ELSE Restrict(K, DOMAIN Forward("R")')
            /\ (last'.op = "set" /\ Card("R") = "M:N" /\ d \in DOMAIN F) => K2 = K
            /\ last'.op \in {"del", "pop"} => K2 = Restrict(K, Keys \ {d})
    ]_vars

\* C18 witness: an ordered M:N relation whose three keys are not in sorted
\* order, after a second range key was inserted for its first key.
C18_Witness ==
    /\ isordered(Now, "R") /\ Card("R") = "M:N"
    /\ last.op = "set" /\ Len(keys(Now, "R")) = 3
    /\ keys(Now, "R")[1] = OneKey(last.D)
    /\ keys(Now, "R")[2] > keys(Now, "R")[3]
    /\ Cardinality(Forward("R")[OneKey(last.D)]) = 2

(***************************************************************************)
(* The order of the two evictions                                          *)
(***************************************************************************)
\* the body of the loops of __setitem__ with the two evictions exchanged:
\* t is tested and evicted first, d second
EvictRangeFirst(st, self, d, t) ==
    LET card == st.rel[self].cardinality
        hitT == card \in {"1:1", "1:M"} /\ DictHas(st, st.rel[self].inverse, t)
        st1  == IF hitT THEN _remove_range(st, self, t) ELSE st
        hitD == card \in {"1:1", "M:1"} /\ DictHas(st1, st1.rel[self].forward, d)
        st2  == IF hitD THEN _remove_domain(st1, self, d) ELSE st1
        st3  == SetDefaultAdd(st2, st2.rel[self].forward, d, t)
    IN  SetDefaultAdd(st3, st3.rel[self].inverse, t, d)

\* what a machine state holds for self: forward and inverse as maps to sets,
\* and the key order of both dictionaries
Final(st, self) ==
    <<Content(st.dicts, st.sets, st.rel[self].forward),
      Content(st.dicts, st.sets, st.rel[self].inverse),
      st.dicts[st.rel[self].forward].order,
      st.dicts[st.rel[self].inverse].order>>

\* inserting (d, t) into st gives another result when t is evicted first
OrderMatters(st, self, d, t) ==
    Final(SetPair(st, self, d, t), self) # Final(EvictRangeFirst(st, self, d, t), self)

\* C17, as amended: under 1:1, in every state the relation reaches and for
\* every pair (d, t), the insert leaves the same forward and inverse, keys
\* in the same order, whether d or t is evicted first.
C17_OrderImmaterial ==
    Card("R") = "1:1" =>
        \A d \in DomKeys, t \in RngKeys : ~OrderMatters(Now, "R", d, t)

\* C17 witness: an ordered 1:1 relation of two pairings, its keys not in
\* sorted order after an insert that evicted on the domain side, in which an
\* insert of (d, t) finds d paired with another range key and t with another
\* domain key.
C17_Witness ==
    /\ Card("R") = "1:1" /\ last.op = "set" /\ last.evD # {} /\ last.evT = {}
    /\ Cardinality(DOMAIN Forward("R")) = 2
    /\ keys(Now, "R")[1] > keys(Now, "R")[2]
    /\ \E d \in DOMAIN Forward("R"), t \in DOMAIN Inverse("R") : Forward("R")[d] # {t}

\* the longest sequence of inserts from which a state is built
MaxBuild == 3

\* the states an empty ordered 1:1 relation reaches by up to MaxBuild
\* single-pair inserts; the current state is taken with them
BuiltStates ==
    {InsertEach(__init__(Empty, "R", "Relation", "1:1", TRUE), "R", q) :
        q \in UNION {[1 .. n -> DomKeys \X RngKeys] : n \in 0 .. MaxBuild}}

\* C17, as stated: under 1:1 there is a reachable state and a pair (d, t)
\* for which evicting d first and evicting t first give different results.
C17_OrderMatters ==
    \E st \in BuiltStates \cup {Now} :
        /\ st.rel["R"].cardinality = "1:1"
        /\ \E d \in DomKeys, t \in RngKeys : OrderMatters(st, "R", d, t)

(***************************************************************************)
(* Re-insert                                                               *)
(***************************************************************************)
\* C19: under every cardinality, self[d] = t for a pair (d, t) that the
\* relation holds leaves forward and inverse, as maps from keys to sets,
\* exactly as they were.
C19_ReinsertIdempotent ==
    [][(/\ IsPairInsert(last')
        /\ <<OneKey(last'.D), OneKey(last'.T)>> \in Pairs(Forward("R"))) =>
        /\ last'.err = "none"
        /\ Forward("R")' = Forward("R")
        /\ Inverse("R")' = Inverse("R")
    ]_vars

\* C19 witness: a 1:M relation of two domain keys after the re-insert of a
\* pair it held: the range-side eviction removed that very pair, and with it
\* the domain key, before the pair was added again.
C19_Witness ==
    /\ IsPairInsert(last) /\ Card("R") = "1:M"
    /\ last.evT = last.D /\ last.swept
    /\ Cardinality(DOMAIN Forward("R")) = 2
    /\ Forward("R")[OneKey(last.D)] = last.T

(***************************************************************************)
(* The inverted view and the constraint of the original                    *)
(***************************************************************************)
\* C20: for V = ~R, after any inserts and deletes through R and through V,
\* R keeps the constraint of its cardinality (forward sets are singletons
\* under 1:1 and M:1, inverse sets under 1:1 and 1:M), forward and inverse
\* are transposes, no key maps to an empty set, and V holds the two
\* dictionaries of R.
C20_InvertedViewKeepsConstraint ==
    "V" \in DOMAIN rel =>
        /\ Card("R") \in {"1:1", "M:1"} => Singletons(Forward("R"))
        /\ Card("R") \in {"1:1", "1:M"} => Singletons(Inverse("R"))
        /\ IsTranspose(Forward("R"), Inverse("R"))
        /\ NoEmptySet(Forward("R")) /\ NoEmptySet(Inverse("R"))
        /\ rel["V"].forward = rel["R"].inverse /\ rel["V"].inverse = rel["R"].forward

\* C20 witness: an insert of (t, d) through V into an M:1 relation R of two
\* domain keys, which evicted the range key d had before.
C20_Witness ==
    /\ "V" \in DOMAIN rel /\ Card("R") = "M:1"
    /\ last.op = "set" /\ last.on = "V"
    /\ last.evT # {} /\ last.evT \cap last.D = {}
    /\ Cardinality(DOMAIN Forward("R")) = 2
    /\ Forward("R")[OneKey(last.T)] = last.D

====
